---- MODULE Spec2Model ----
(***************************************************************************)
(* A model of the clan points bot (src/main.py): the sqlite tables clans,  *)
(* users, logs, achievements, config and shop, the two in-memory trackers  *)
(* (last_message_time, user_daily_points) and the handlers that change     *)
(* them; handlers and summary hold the position of the tasks suspended at  *)
(* an await.  discord.py runs every handler on one event loop, and the     *)
(* helper functions are synchronous, so a handler is atomic between two    *)
(* awaits.                                                                 *)
(*                                                                         *)
(* Time: `day` counts UTC days from a Monday long after the epoch and      *)
(* `sec` the seconds elapsed in that day.  A handler reads the clock once. *)
(* SQL NULL / Python None is NoClan ("") for a clan name and None (-1) for *)
(* a number; an ISO date or timestamp text is kept as the number of the    *)
(* day or second it denotes (isoformat and fromisoformat are inverse on    *)
(* the datetimes the program writes).                                      *)
(***************************************************************************)
EXTENDS Integers, Sequences, FiniteSets, TLC

VARIABLES day, sec, clans, users, logs, achievements, config, shop,
          channel_multipliers, seasonal_events,
          last_message_time, user_daily_points, handlers, summary, last

vars == <<day, sec, clans, users, logs, achievements, config, shop,
          channel_multipliers, seasonal_events,
          last_message_time, user_daily_points, handlers, summary, last>>

----------------------------------------------------------------------------
(* Bounds of the model: the last second of a day the clock reaches, the    *)
(* number of log rows and of shop rows.                                    *)

MaxSec == 5
MaxLog == 2
MaxShop == 1

(* Program constants *)

MESSAGE_COOLDOWN == 5
MAX_DAILY_POINTS == 500
DEFAULT_MAX_POINTS == 20000
MAX_ADMIN_AMOUNT == 10000
MIN_WEEKLY_CAP == 100
MAX_WEEKLY_CAP == 20000
MIN_CONTENT_LENGTH == 3
LONG_CONTENT_LENGTH == 50

milestones == <<100, 500, 1000, 2500, 5000, 10000>>

(* Inputs.  Day 0 is a Monday; a run starts on the Friday of that week.   *)

UserIds == {1, 2}
Wolves == "Iron-Wolves_2"
ClanNames == {Wolves, "B"}
BonusRoleName == "VIP"
RoleOrder == <<BonusRoleName, Wolves, "B">>
ChannelId == 900
SecSteps == {4, 5}
ShortMessage == [length |-> 3, space |-> FALSE]

NoClan == ""
None == 0 - 1
NoDate == 0 - 1

----------------------------------------------------------------------------
(* Clock: time.time() in whole seconds, datetime.utcnow() as (day, sec).   *)
(* The first day of the model is one week after the origin of time.time(), *)
(* so that a user who never sent a message (last_message_time 0.0) is not  *)
(* rate limited.                                                           *)

SecondsPerDay == 24 * 3600

time_time(d, s) == (7 + d) * SecondsPerDay + s

weekday(d) == d % 7

get_week_start(d) == d - weekday(d)

----------------------------------------------------------------------------
(* Helpers of main.py.  Each takes the tables it reads and returns its     *)
(* result together with the tables as it leaves them.                      *)

(* Mutant of is_rate_limited: the cooldown's last second is limited too. *)
is_rate_limited_inclusive(lmt, user_id, d, s) ==
    time_time(d, s) - lmt[user_id] <= MESSAGE_COOLDOWN

(* Mutant of is_rate_limited: nobody is rate limited. *)
is_rate_limited_off(lmt, user_id, d, s) == FALSE

is_rate_limited(lmt, user_id, d, s) ==
    time_time(d, s) - lmt[user_id] < MESSAGE_COOLDOWN

(* Mutant of check_daily_limit: the amount is left out of the comparison. *)
check_daily_limit_no_amount(udp, user_id, points_to_add, d) ==
    LET user_data == IF udp[user_id].date # d
                     THEN [date |-> d, points |-> 0]
                     ELSE udp[user_id]
    IN [ret |-> user_data.points <= MAX_DAILY_POINTS,
        udp |-> [udp EXCEPT ![user_id] = user_data]]

(* Mutant of check_daily_limit: the amount is reserved before it is        *)
(* compared, and stays reserved when the call answers False.               *)
check_daily_limit_reserves(udp, user_id, points_to_add, d) ==
    LET user_data == IF udp[user_id].date # d
                     THEN [date |-> d, points |-> 0]
                     ELSE udp[user_id]
    IN [ret |-> user_data.points + points_to_add <= MAX_DAILY_POINTS,
        udp |-> [udp EXCEPT ![user_id] =
                    IF user_data.points + points_to_add <= MAX_DAILY_POINTS
                    THEN user_data
                    ELSE [date |-> d, points |-> user_data.points + points_to_add]]]

(* Mutant of check_daily_limit: a new day takes the date and keeps the     *)
(* points of the day before.                                               *)
check_daily_limit_no_reset(udp, user_id, points_to_add, d) ==
    LET user_data == [date |-> d, points |-> udp[user_id].points]
    IN [ret |-> user_data.points + points_to_add <= MAX_DAILY_POINTS,
        udp |-> [udp EXCEPT ![user_id] = user_data]]

(* check_daily_limit: a new day resets the user's counter in place. *)
check_daily_limit(udp, user_id, points_to_add, d) ==
    LET user_data == IF udp[user_id].date # d
                     THEN [date |-> d, points |-> 0]
                     ELSE udp[user_id]
    IN [ret |-> user_data.points + points_to_add <= MAX_DAILY_POINTS,
        udp |-> [udp EXCEPT ![user_id] = user_data]]

(* Mutant of get_clan_points: the rollover resets the points and the week  *)
(* start but does not archive the points.                                  *)
get_clan_points_no_archive(cl, clan, d) ==
    IF clan \notin DOMAIN cl
    THEN [ret |-> None, clans |-> cl]
    ELSE IF cl[clan].last_week_start # NoDate
            /\ get_week_start(d) > cl[clan].last_week_start
         THEN [ret |-> 0,
               clans |-> [cl EXCEPT ![clan] =
                            [points |-> 0,
                             last_week_start |-> get_week_start(d),
                             last_week_points |-> cl[clan].last_week_points,
                             max_points |-> cl[clan].max_points]]]
         ELSE [ret |-> cl[clan].points, clans |-> cl]

(* Mutant of get_clan_points: a week start equal to this week's Monday     *)
(* rolls over too.                                                         *)
get_clan_points_rollover_again(cl, clan, d) ==
    IF clan \notin DOMAIN cl
    THEN [ret |-> None, clans |-> cl]
    ELSE IF cl[clan].last_week_start # NoDate
            /\ get_week_start(d) >= cl[clan].last_week_start
         THEN [ret |-> 0,
               clans |-> [cl EXCEPT ![clan] =
                            [points |-> 0,
                             last_week_start |-> get_week_start(d),
                             last_week_points |-> cl[clan].points,
                             max_points |-> cl[clan].max_points]]]
         ELSE [ret |-> cl[clan].points, clans |-> cl]

(* get_clan_points: None for an unknown clan; a stored week start earlier  *)
(* than this week's Monday archives the points and returns 0.              *)
get_clan_points(cl, clan, d) ==
    IF clan \notin DOMAIN cl
    THEN [ret |-> None, clans |-> cl]
    ELSE IF cl[clan].last_week_start # NoDate
            /\ get_week_start(d) > cl[clan].last_week_start
         THEN [ret |-> 0,
               clans |-> [cl EXCEPT ![clan] =
                            [points |-> 0,
                             last_week_start |-> get_week_start(d),
                             last_week_points |-> cl[clan].points,
                             max_points |-> cl[clan].max_points]]]
         ELSE [ret |-> cl[clan].points, clans |-> cl]

(* Mutant of can_add_to_clan: the amount is left out of the comparison. *)
can_add_to_clan_no_amount(cl, clan, amount, d) ==
    LET r == get_clan_points(cl, clan, d)
    IN [ret |-> clan \in DOMAIN r.clans
                /\ r.ret # None
                /\ r.ret <= r.clans[clan].max_points,
        clans |-> r.clans]

(* Mutant of can_add_to_clan: a refusal undoes the rollover its read did. *)
can_add_to_clan_undo(cl, clan, amount, d) ==
    LET r  == get_clan_points(cl, clan, d)
        ok == clan \in DOMAIN r.clans
              /\ r.ret # None
              /\ r.ret + amount <= r.clans[clan].max_points
    IN [ret |-> ok, clans |-> IF ok THEN r.clans ELSE cl]

can_add_to_clan(cl, clan, amount, d) ==
    LET r == get_clan_points(cl, clan, d)
    IN [ret |-> clan \in DOMAIN r.clans
                /\ r.ret # None
                /\ r.ret + amount <= r.clans[clan].max_points,
        clans |-> r.clans]

(* Mutant of insert_or_ignore: INSERT OR REPLACE, the row is written anew. *)
insert_or_replace(ach, user_id, m, t) ==
    {a \in ach : ~(a.user_id = user_id /\ a.achievement_name = m)}
        \cup {[user_id |-> user_id, achievement_name |-> m, earned_date |-> t]}

(* Mutant of insert_or_ignore: a plain insert into a table without the     *)
(* primary key.                                                            *)
insert_plain(ach, user_id, m, t) ==
    ach \cup {[user_id |-> user_id, achievement_name |-> m, earned_date |-> t]}

(* INSERT OR IGNORE of one achievements row under PRIMARY KEY              *)
(* (user_id, achievement_name); the name "Reached m Points" is kept as m.  *)
insert_or_ignore(ach, user_id, m, t) ==
    IF \E a \in ach : a.user_id = user_id /\ a.achievement_name = m
    THEN ach
    ELSE ach \cup {[user_id |-> user_id, achievement_name |-> m, earned_date |-> t]}

RECURSIVE insert_milestones(_, _, _, _, _)
insert_milestones(ach, user_id, points, t, i) ==
    IF i > Len(milestones)
    THEN ach
    ELSE insert_milestones(
             IF points >= milestones[i]
             THEN insert_or_ignore(ach, user_id, milestones[i], t)
             ELSE ach,
             user_id, points, t, i + 1)

(* check_achievements: returns the list of every milestone the user's      *)
(* points reach (<<>> also stands for the None of an unknown user).        *)
check_achievements(us, ach, user_id, t) ==
    IF user_id \notin DOMAIN us
    THEN [ret |-> <<>>, achievements |-> ach]
    ELSE [ret |-> SelectSeq(milestones, LAMBDA m : us[user_id].points >= m),
          achievements |-> insert_milestones(ach, user_id, us[user_id].points, t, 1)]

(* add_points_to_clan_and_user.  The clan cap gate and the daily gate come *)
(* first; a rollover done by the gate's read is committed on its own       *)
(* connection and stays.  The daily counter is raised before the commit:   *)
(* when the commit fails (commit_ok = FALSE) the with-block rolls the      *)
(* tables back and the counter keeps the amount.                           *)
add_points_to_clan_and_user(cl, us, lg, ach, udp, user_id, clan, amount, source, d, s, commit_ok) ==
    LET gate  == can_add_to_clan(cl, clan, amount, d)
        daily == check_daily_limit(udp, user_id, amount, d)
        cur   == get_clan_points(gate.clans, clan, d)
        cl2   == [cur.clans EXCEPT ![clan].points = cur.ret + amount]
        us2   == IF user_id \in DOMAIN us
                 THEN [us EXCEPT ![user_id].points = @ + amount]
                 ELSE [u \in DOMAIN us \cup {user_id} |->
                         IF u = user_id
                         THEN [clan_name |-> clan, points |-> amount]
                         ELSE us[u]]
        lg2   == Append(lg, [user_id |-> user_id, amount |-> amount,
                             source |-> source, timestamp |-> time_time(d, s),
                             channel_id |-> ChannelId])
        udp2  == [daily.udp EXCEPT ![user_id] =
                     [date |-> d, points |-> @.points + amount]]
        unchanged == [clans |-> cl, users |-> us, logs |-> lg,
                      achievements |-> ach, udp |-> udp]
    IN  IF ~gate.ret
        THEN [unchanged EXCEPT !.clans = gate.clans] @@ [ret |-> FALSE, why |-> "clan_cap"]
        ELSE IF ~daily.ret
        THEN [unchanged EXCEPT !.clans = gate.clans, !.udp = daily.udp]
             @@ [ret |-> FALSE, why |-> "daily_limit"]
        ELSE IF cur.ret = None
        THEN [unchanged EXCEPT !.clans = cur.clans, !.udp = daily.udp]
             @@ [ret |-> FALSE, why |-> "no_clan"]
        ELSE IF ~commit_ok
        THEN [unchanged EXCEPT !.clans = cur.clans, !.udp = udp2]
             @@ [ret |-> FALSE, why |-> "exception"]
        ELSE [clans |-> cl2, users |-> us2, logs |-> lg2,
              achievements |-> check_achievements(us2, ach, user_id, time_time(d, s)).achievements,
              udp |-> udp2, ret |-> TRUE, why |-> "ok"]

(* Mutant of first_clan_role: the first of the member's roles, whether it  *)
(* names a clan or not.                                                    *)
RECURSIVE first_role_any(_, _, _)
first_role_any(cl, roles, i) ==
    IF i > Len(RoleOrder) THEN NoClan
    ELSE IF RoleOrder[i] \in roles
         THEN RoleOrder[i]
         ELSE first_role_any(cl, roles, i + 1)

(* The first of the member's roles, in the guild's role order, that names  *)
(* a clan; NoClan when none does.                                          *)
RECURSIVE first_clan_role(_, _, _)
first_clan_role(cl, roles, i) ==
    IF i > Len(RoleOrder) THEN NoClan
    ELSE IF RoleOrder[i] \in roles /\ RoleOrder[i] \in DOMAIN cl
         THEN RoleOrder[i]
         ELSE first_clan_role(cl, roles, i + 1)

(* Mutant of get_user_clan: the role naming a clan is returned but the     *)
(* stored assignment is left as it is.                                     *)
get_user_clan_no_store(us, cl, user_id, guild, roles) ==
    LET db_clan == IF user_id \in DOMAIN us THEN us[user_id].clan_name ELSE NoClan
        role    == first_clan_role(cl, roles, 1)
    IN  IF guild /\ role # NoClan
        THEN [ret |-> role, users |-> us]
        ELSE [ret |-> db_clan, users |-> us]

(* get_user_clan: with a guild, a role naming a clan wins over the stored  *)
(* assignment and is stored.                                               *)
get_user_clan(us, cl, user_id, guild, roles) ==
    LET db_clan == IF user_id \in DOMAIN us THEN us[user_id].clan_name ELSE NoClan
        role    == first_clan_role(cl, roles, 1)
    IN  IF guild /\ role # NoClan
        THEN [ret |-> role,
              users |-> IF db_clan = role THEN us
                        ELSE IF user_id \in DOMAIN us
                        THEN [us EXCEPT ![user_id].clan_name = role]
                        ELSE [u \in DOMAIN us \cup {user_id} |->
                                IF u = user_id
                                THEN [clan_name |-> role, points |-> 0]
                                ELSE us[u]]]
        ELSE [ret |-> db_clan, users |-> us]

(* Mutant of eligible_content: every content is eligible. *)
eligible_content_any(msg) == TRUE

(* The content test of on_message (line 1943): len(content) >= 3 and not   *)
(* content.isspace().                                                      *)
eligible_content(msg) == ~(msg.length < MIN_CONTENT_LENGTH \/ msg.space)

(* ctx.guild.roles as syncclans walks them, and the roles it passes over:  *)
(* "@everyone" and every name that holds admin, mod, bot or everyone.      *)
GuildRoles == <<"@everyone", "Moderators", BonusRoleName, Wolves, "B">>

sync_skips(name) == name \in {"@everyone", "Moderators"}

(* The loop of syncclans (lines 1741-1761) from role i on.  us is the      *)
(* users table as the open transaction sees it; get_user_clan reads on a   *)
(* connection of its own and sees the committed table.  A role with        *)
(* members that names no clan is inserted into clans with a column         *)
(* weekly_cap the clans table does not have: the INSERT raises and the     *)
(* with-block rolls the whole sync back.                                   *)
RECURSIVE sync_roles(_, _, _, _, _)
sync_roles(cl, us, committed, members, i) ==
    IF i > Len(GuildRoles)
    THEN [ok |-> TRUE, users |-> us]
    ELSE LET role    == GuildRoles[i]
             changed == {m \in members[role] :
                            get_user_clan(committed, cl, m, FALSE, {}).ret # role}
             us2     == [u \in DOMAIN us \cup changed |->
                            IF u \notin changed THEN us[u]
                            ELSE IF u \in DOMAIN us
                            THEN [us[u] EXCEPT !.clan_name = role]
                            ELSE [clan_name |-> role, points |-> 0]]
         IN  IF sync_skips(role) \/ members[role] = {}
             THEN sync_roles(cl, us, committed, members, i + 1)
             ELSE IF role \notin DOMAIN cl
             THEN [ok |-> FALSE, users |-> committed]
             ELSE sync_roles(cl, us2, committed, members, i + 1)

(* The amount on_message awards for a message (lines 1959-1971). *)
message_amount(has_bonus, d, length) ==
    LET base_amount == IF has_bonus THEN 5 ELSE 1
        weekend     == IF weekday(d) >= 5
                       THEN (base_amount * 3) \div 2
                       ELSE base_amount
    IN  IF length > LONG_CONTENT_LENGTH THEN weekend + 1 ELSE weekend

(* get_clan_points called while the caller's own connection holds the     *)
(* write lock (removepoints, line 1490): the read succeeds, but the        *)
(* rollover's UPDATE on the second connection cannot get the lock, the     *)
(* call logs "database is locked" after the 30 s timeout and returns None. *)
get_clan_points_in_write_txn(cl, clan, d) ==
    IF get_clan_points(cl, clan, d).clans # cl
    THEN [ret |-> None, clans |-> cl]
    ELSE get_clan_points(cl, clan, d)

(* validate_clan_name on the characters of the name: TRUE when accepted.   *)
(* Alnum holds the characters of the names below for which str.isalnum()   *)
(* is true; Name50 and Name51 are names of 50 and of 51 letters.           *)
Alnum == {"I", "r", "o", "n", "W", "l", "v", "e", "s", "2", "B", "a", "b"}

Name50 == "aaaaaaaaaaaaaaaaaaaaaaaaaaaaaaaaaaaaaaaaaaaaaaaaaa"
Name51 == "aaaaaaaaaaaaaaaaaaaaaaaaaaaaaaaaaaaaaaaaaaaaaaaaaaa"

chars(name) ==
    CASE name = "Iron-Wolves_2" ->
           <<"I", "r", "o", "n", "-", "W", "o", "l", "v", "e", "s", "_", "2">>
      [] name = "Iron/Wolves" ->
           <<"I", "r", "o", "n", "/", "W", "o", "l", "v", "e", "s">>
      [] name = "B" -> <<"B">>
      [] name = "---" -> <<"-", "-", "-">>
      [] name = "a b" -> <<"a", " ", "b">>
      [] name = Name50 -> [i \in 1..50 |-> "a"]
      [] name = Name51 -> [i \in 1..51 |-> "a"]
      [] OTHER -> <<>>

validate_clan_name(name) ==
    LET stripped == SelectSeq(chars(name), LAMBDA ch : ch \notin {" ", "-", "_"})
    IN  /\ Len(chars(name)) <= 50
        /\ stripped # <<>>
        /\ \A i \in 1..Len(stripped) : stripped[i] \in Alnum

(* The first shop row with the name (SELECT ... fetchone), 0 when none. *)
RECURSIVE shop_row(_, _, _)
shop_row(sh, item_name, i) ==
    IF i > Len(sh) THEN 0
    ELSE IF sh[i].name = item_name THEN i
    ELSE shop_row(sh, item_name, i + 1)

(* Mutant of max: the second argument, whatever the first. *)
max_second(a, b) == b

max(a, b) == IF a >= b THEN a ELSE b

----------------------------------------------------------------------------
(* State *)

EmptyTable == [x \in {} |-> None]

(* The message events whose handlers the event loop may hold suspended at  *)
(* an await, and the record of an event that has not arrived.              *)
Events == {1, 2}
NoHandler == [at |-> "none", user |-> 0, ret |-> "", time |-> 0]

result(op, user_id, clan, amount, ret, val) ==
    [op |-> op, user |-> user_id, clan |-> clan, amount |-> amount,
     ret |-> ret, val |-> val]

Init ==
    /\ day = 4
    /\ sec = 0
    /\ clans = EmptyTable
    /\ users = EmptyTable
    /\ logs = <<>>
    /\ achievements = {}
    /\ config = [bonus_role |-> NoClan]
    /\ shop = <<>>
    /\ channel_multipliers = EmptyTable
    /\ seasonal_events = EmptyTable
    /\ handlers = [e \in Events |-> NoHandler]
    /\ summary = [at |-> "idle", top |-> {}]
    /\ last_message_time = [u \in UserIds |-> 0]
    /\ user_daily_points = [u \in UserIds |-> [date |-> NoDate, points |-> 0]]
    /\ last = result("init", 0, NoClan, 0, "", None)

(* The row of a clan the bot finds at start-up in a clans.db written by a  *)
(* version whose clans table had no week columns: lines 130-163 add the    *)
(* columns, last_week_start with DEFAULT '' (NoDate), and keep the points. *)
migrated_clan(points) ==
    [points |-> points,
     last_week_start |-> NoDate,
     last_week_points |-> 0,
     max_points |-> DEFAULT_MAX_POINTS]

(* The state after start-up on such a database, with one clan in it. *)
InitMigrated ==
    /\ day = 4
    /\ sec = 0
    /\ \E points \in {0, 300} : clans = [c \in {Wolves} |-> migrated_clan(points)]
    /\ users = EmptyTable
    /\ logs = <<>>
    /\ achievements = {}
    /\ config = [bonus_role |-> NoClan]
    /\ shop = <<>>
    /\ channel_multipliers = EmptyTable
    /\ seasonal_events = EmptyTable
    /\ handlers = [e \in Events |-> NoHandler]
    /\ summary = [at |-> "idle", top |-> {}]
    /\ last_message_time = [u \in UserIds |-> 0]
    /\ user_daily_points = [u \in UserIds |-> [date |-> NoDate, points |-> 0]]
    /\ last = result("init", 0, NoClan, 0, "", None)

(* The clock moves on between two handlers. *)
Tick(k) ==
    /\ sec + k <= MaxSec
    /\ sec' = sec + k
    /\ UNCHANGED <<channel_multipliers, seasonal_events, handlers, summary>>
    /\ UNCHANGED <<day, clans, users, logs, achievements, config, shop,
                   last_message_time, user_daily_points, last>>

NextDay(d) ==
    /\ day < d
    /\ day' = d
    /\ sec' = 0
    /\ UNCHANGED <<channel_multipliers, seasonal_events, handlers, summary>>
    /\ UNCHANGED <<clans, users, logs, achievements, config, shop,
                   last_message_time, user_daily_points, last>>

(* on_message from its entry to its first await (line 1989 or 1997), for a *)
(* default-type message of a human author.  Everything the handler writes  *)
(* is written here: after the award it only sends the milestone embed and  *)
(* hands the message to process_commands.                                  *)
on_message_to_await(user_id, msg, roles, commit_ok) ==
    LET g         == get_user_clan(users, clans, user_id, TRUE, roles)
        clan      == g.ret
        has_bonus == config.bonus_role # NoClan /\ config.bonus_role \in roles
        amount    == message_amount(has_bonus, day, msg.length)
        a         == add_points_to_clan_and_user(
                         clans, g.users, logs, achievements, user_daily_points,
                         user_id, clan, amount, "message", day, sec, commit_ok)
    IN
    /\ Len(logs) < MaxLog
    /\ UNCHANGED <<channel_multipliers, seasonal_events, summary>>
    /\ UNCHANGED <<day, sec, config, shop>>
    /\ IF is_rate_limited(last_message_time, user_id, day, sec)
       THEN /\ last' = result("on_message", user_id, NoClan, 0, "rate_limited", None)
            /\ UNCHANGED <<clans, users, logs, achievements,
                           last_message_time, user_daily_points>>
       ELSE IF ~eligible_content(msg)
       THEN /\ last' = result("on_message", user_id, NoClan, 0, "ineligible", None)
            /\ UNCHANGED <<clans, users, logs, achievements,
                           last_message_time, user_daily_points>>
       ELSE /\ last_message_time' =
                  [last_message_time EXCEPT ![user_id] = time_time(day, sec)]
            /\ IF clan = NoClan
               THEN /\ last' = result("on_message", user_id, NoClan, 0, "no_clan", None)
                    /\ users' = g.users
                    /\ UNCHANGED <<clans, logs, achievements, user_daily_points>>
               ELSE IF clan \notin roles
               THEN /\ last' = result("on_message", user_id, clan, 0, "no_clan_role", None)
                    /\ users' = g.users
                    /\ UNCHANGED <<clans, logs, achievements, user_daily_points>>
               ELSE /\ last' = result("on_message", user_id, clan, amount, a.why, None)
                    /\ clans' = a.clans
                    /\ users' = a.users
                    /\ logs' = a.logs
                    /\ achievements' = a.achievements
                    /\ user_daily_points' = a.udp

(* on_message, lines 1935-1997, run from its entry to its end with no      *)
(* other handler scheduled at its awaits.                                  *)
on_message(user_id, msg, roles, commit_ok) ==
    /\ on_message_to_await(user_id, msg, roles, commit_ok)
    /\ UNCHANGED handlers

(* The task the event loop creates for message event e runs on_message up  *)
(* to its first await and is suspended there: at the send of the milestone *)
(* embed (line 1989) when the award took the user's points over a          *)
(* milestone, otherwise at process_commands (line 1997).                   *)
on_message_task(e, user_id, msg, roles) ==
    /\ handlers[e].at = "none"
    /\ on_message_to_await(user_id, msg, roles, TRUE)
    /\ LET total     == users'[user_id].points
           announces == /\ last'.ret = "ok"
                        /\ \E i \in 1..Len(milestones) :
                              /\ total - last'.amount < milestones[i]
                              /\ milestones[i] <= total
       IN  handlers' = [handlers EXCEPT ![e] =
                          [at |-> IF announces THEN "send" ELSE "process_commands",
                           user |-> user_id,
                           ret |-> last'.ret,
                           time |-> time_time(day, sec)]]

(* await message.channel.send(embed=embed) returns; the finally clause     *)
(* goes on to process_commands.                                            *)
send_returns(e) ==
    /\ handlers[e].at = "send"
    /\ handlers' = [handlers EXCEPT ![e].at = "process_commands"]
    /\ UNCHANGED <<day, sec, clans, users, logs, achievements, config, shop,
                   channel_multipliers, seasonal_events, summary,
                   last_message_time, user_daily_points, last>>

(* await bot.process_commands(message) returns for a message that is no    *)
(* command, and the task ends.                                             *)
process_commands(e) ==
    /\ handlers[e].at = "process_commands"
    /\ handlers' = [handlers EXCEPT ![e].at = "done"]
    /\ UNCHANGED <<day, sec, clans, users, logs, achievements, config, shop,
                   channel_multipliers, seasonal_events, summary,
                   last_message_time, user_daily_points, last>>

(* addpoints (and slash_addpoints), lines 1433-1455. *)
addpoints(user_id, amount, roles, commit_ok) ==
    LET g    == get_user_clan(users, clans, user_id, TRUE, roles)
        clan == g.ret
        gate == can_add_to_clan(clans, clan, amount, day)
        a    == add_points_to_clan_and_user(
                    gate.clans, g.users, logs, achievements, user_daily_points,
                    user_id, clan, amount, "admin", day, sec, commit_ok)
    IN
    /\ Len(logs) < MaxLog
    /\ UNCHANGED <<channel_multipliers, seasonal_events, handlers, summary>>
    /\ UNCHANGED <<day, sec, config, shop, last_message_time>>
    /\ IF amount <= 0 \/ amount > MAX_ADMIN_AMOUNT
       THEN /\ last' = result("addpoints", user_id, NoClan, amount, "invalid_amount", None)
            /\ UNCHANGED <<clans, users, logs, achievements, user_daily_points>>
       ELSE IF clan = NoClan
       THEN /\ last' = result("addpoints", user_id, NoClan, amount, "no_clan", None)
            /\ users' = g.users
            /\ UNCHANGED <<clans, logs, achievements, user_daily_points>>
       ELSE IF ~gate.ret
       THEN /\ last' = result("addpoints", user_id, clan, amount, "clan_cap", None)
            /\ users' = g.users
            /\ clans' = gate.clans
            /\ UNCHANGED <<logs, achievements, user_daily_points>>
       ELSE /\ last' = result("addpoints", user_id, clan, amount, a.why, None)
            /\ clans' = a.clans
            /\ users' = a.users
            /\ logs' = a.logs
            /\ achievements' = a.achievements
            /\ user_daily_points' = a.udp

(* removepoints (and slash_removepoints), lines 1459-1501.  The user's row *)
(* is updated first, which opens the write transaction; the clan's points  *)
(* are then read through get_clan_points on a second connection.  A None   *)
(* from that read raises TypeError at line 1491 and the with-block rolls   *)
(* the removal back.                                                       *)
removepoints(user_id, amount, roles) ==
    LET g    == get_user_clan(users, clans, user_id, TRUE, roles)
        clan == g.ret
        cur  == get_clan_points_in_write_txn(clans, clan, day)
    IN
    /\ Len(logs) < MaxLog
    /\ UNCHANGED <<channel_multipliers, seasonal_events, handlers, summary>>
    /\ UNCHANGED <<day, sec, config, shop, achievements,
                   last_message_time, user_daily_points>>
    /\ IF amount <= 0 \/ amount > MAX_ADMIN_AMOUNT
       THEN /\ last' = result("removepoints", user_id, NoClan, amount, "invalid_amount", None)
            /\ UNCHANGED <<clans, users, logs>>
       ELSE IF clan = NoClan
       THEN /\ last' = result("removepoints", user_id, NoClan, amount, "no_clan", None)
            /\ users' = g.users
            /\ UNCHANGED <<clans, logs>>
       ELSE IF user_id \notin DOMAIN g.users
       THEN /\ last' = result("removepoints", user_id, clan, amount, "no_points", None)
            /\ users' = g.users
            /\ UNCHANGED <<clans, logs>>
       ELSE IF g.users[user_id].points < amount
       THEN /\ last' = result("removepoints", user_id, clan, amount, "insufficient", None)
            /\ users' = g.users
            /\ UNCHANGED <<clans, logs>>
       ELSE IF cur.ret = None
       THEN /\ last' = result("removepoints", user_id, clan, amount, "exception", None)
            /\ users' = g.users
            /\ UNCHANGED <<clans, logs>>
       ELSE /\ last' = result("removepoints", user_id, clan, amount, "ok", None)
            /\ users' = [g.users EXCEPT ![user_id].points = @ - amount]
            /\ clans' = [cur.clans EXCEPT ![clan].points = max(0, cur.ret - amount)]
            /\ logs' = Append(logs, [user_id |-> user_id, amount |-> 0 - amount,
                                     source |-> "admin_removal",
                                     timestamp |-> time_time(day, sec),
                                     channel_id |-> ChannelId])

(* additem, lines 545-555. *)
additem(name, cost) ==
    /\ Len(shop) < MaxShop
    /\ shop' = Append(shop, [name |-> name, cost |-> cost])
    /\ last' = result("additem", 0, NoClan, cost, "ok", None)
    /\ UNCHANGED <<channel_multipliers, seasonal_events, handlers, summary>>
    /\ UNCHANGED <<day, sec, clans, users, logs, achievements, config,
                   last_message_time, user_daily_points>>

(* purchase, lines 580-615. *)
purchase(user_id, item_name) ==
    LET i    == shop_row(shop, item_name, 1)
        cost == shop[i].cost
    IN
    /\ UNCHANGED <<channel_multipliers, seasonal_events, handlers, summary>>
    /\ UNCHANGED <<day, sec, clans, logs, achievements, config, shop,
                   last_message_time, user_daily_points>>
    /\ IF i = 0
       THEN /\ last' = result("purchase", user_id, NoClan, 0, "no_item", None)
            /\ UNCHANGED users
       ELSE IF user_id \notin DOMAIN users
       THEN /\ last' = result("purchase", user_id, NoClan, cost, "not_registered", None)
            /\ UNCHANGED users
       ELSE IF users[user_id].points < cost
       THEN /\ last' = result("purchase", user_id, NoClan, cost, "insufficient", None)
            /\ UNCHANGED users
       ELSE /\ last' = result("purchase", user_id, NoClan, cost, "ok", None)
            /\ users' = [users EXCEPT ![user_id].points = @ - cost]

(* createclan (and slash_createclan), lines 1275-1304. *)
createclan(clan_name) ==
    /\ UNCHANGED <<channel_multipliers, seasonal_events, handlers, summary>>
    /\ UNCHANGED <<day, sec, users, logs, achievements, config, shop,
                   last_message_time, user_daily_points>>
    /\ IF ~validate_clan_name(clan_name)
       THEN /\ last' = result("createclan", 0, clan_name, 0, "invalid_name", None)
            /\ UNCHANGED clans
       ELSE IF clan_name \in DOMAIN clans
       THEN /\ last' = result("createclan", 0, clan_name, 0, "exists", None)
            /\ UNCHANGED clans
       ELSE /\ last' = result("createclan", 0, clan_name, 0, "ok", None)
            /\ clans' = [c \in DOMAIN clans \cup {clan_name} |->
                           IF c = clan_name
                           THEN [points |-> 0,
                                 last_week_start |-> get_week_start(day),
                                 last_week_points |-> 0,
                                 max_points |-> DEFAULT_MAX_POINTS]
                           ELSE clans[c]]

(* Mutant of assignclan: the user's row is written with REPLACE INTO, so   *)
(* a user who has a row gets a new one with 0 points.                      *)
assignclan_replace(whitelisted, user_id, clan_name) ==
    /\ UNCHANGED <<channel_multipliers, seasonal_events, handlers, summary>>
    /\ UNCHANGED <<day, sec, clans, logs, achievements, config, shop,
                   last_message_time, user_daily_points>>
    /\ IF ~whitelisted
       THEN /\ last' = result("assignclan", user_id, clan_name, 0, "denied", None)
            /\ UNCHANGED users
       ELSE IF clan_name \notin DOMAIN clans
       THEN /\ last' = result("assignclan", user_id, clan_name, 0, "no_clan", None)
            /\ UNCHANGED users
       ELSE /\ last' = result("assignclan", user_id, clan_name, 0, "ok", None)
            /\ users' = [u \in DOMAIN users \cup {user_id} |->
                            IF u = user_id
                            THEN [clan_name |-> clan_name, points |-> 0]
                            ELSE users[u]]

(* assignclan (and slash_assignclan), lines 1341-1382. *)
assignclan(whitelisted, user_id, clan_name) ==
    /\ UNCHANGED <<channel_multipliers, seasonal_events, handlers, summary>>
    /\ UNCHANGED <<day, sec, clans, logs, achievements, config, shop,
                   last_message_time, user_daily_points>>
    /\ IF ~whitelisted
       THEN /\ last' = result("assignclan", user_id, clan_name, 0, "denied", None)
            /\ UNCHANGED users
       ELSE IF clan_name \notin DOMAIN clans
       THEN /\ last' = result("assignclan", user_id, clan_name, 0, "no_clan", None)
            /\ UNCHANGED users
       ELSE /\ last' = result("assignclan", user_id, clan_name, 0, "ok", None)
            /\ users' = IF user_id \in DOMAIN users
                        THEN [users EXCEPT ![user_id].clan_name = clan_name]
                        ELSE [u \in DOMAIN users \cup {user_id} |->
                                IF u = user_id
                                THEN [clan_name |-> clan_name, points |-> 0]
                                ELSE users[u]]

(* Mutant of setweeklycap: the cap is written before its range is looked   *)
(* at.                                                                     *)
setweeklycap_unchecked(clan, cap) ==
    /\ UNCHANGED <<channel_multipliers, seasonal_events, handlers, summary>>
    /\ UNCHANGED <<day, sec, users, logs, achievements, config, shop,
                   last_message_time, user_daily_points>>
    /\ last' = result("setweeklycap", 0, clan, cap,
                      IF cap < MIN_WEEKLY_CAP \/ cap > MAX_WEEKLY_CAP
                      THEN "invalid_cap" ELSE "ok", None)
    /\ clans' = IF clan \in DOMAIN clans
                THEN [clans EXCEPT ![clan].max_points = cap]
                ELSE clans

(* setweeklycap (and slash_setweeklycap), lines 2048-2062. *)
setweeklycap(clan, cap) ==
    /\ UNCHANGED <<channel_multipliers, seasonal_events, handlers, summary>>
    /\ UNCHANGED <<day, sec, users, logs, achievements, config, shop,
                   last_message_time, user_daily_points>>
    /\ IF cap < MIN_WEEKLY_CAP \/ cap > MAX_WEEKLY_CAP
       THEN /\ last' = result("setweeklycap", 0, clan, cap, "invalid_cap", None)
            /\ UNCHANGED clans
       ELSE /\ last' = result("setweeklycap", 0, clan, cap, "ok", None)
            /\ clans' = IF clan \in DOMAIN clans
                        THEN [clans EXCEPT ![clan].max_points = cap]
                        ELSE clans

(* setbonusrole, lines 1580-1589. *)
setbonusrole(role_name) ==
    /\ config' = [config EXCEPT !.bonus_role = role_name]
    /\ last' = result("setbonusrole", 0, role_name, 0, "ok", None)
    /\ UNCHANGED <<channel_multipliers, seasonal_events, handlers, summary>>
    /\ UNCHANGED <<day, sec, clans, users, logs, achievements, shop,
                   last_message_time, user_daily_points>>

(* claninfo, lines 1213-1240: a read of the clan through get_clan_points. *)
claninfo(clan_name) ==
    LET r == get_clan_points(clans, clan_name, day)
    IN  /\ clans' = r.clans
        /\ last' = result("claninfo", 0, clan_name, 0,
                          IF r.ret = None THEN "not_found" ELSE "ok", r.ret)
        /\ UNCHANGED <<channel_multipliers, seasonal_events, handlers, summary>>
        /\ UNCHANGED <<day, sec, users, logs, achievements, config, shop,
                       last_message_time, user_daily_points>>

(* A direct call of check_achievements(user_id); last.ret is "again" when  *)
(* the call before it was the same one.                                    *)
evaluate(user_id) ==
    LET r == check_achievements(users, achievements, user_id, time_time(day, sec))
    IN  /\ achievements' = r.achievements
        /\ last' = result("check_achievements", user_id, NoClan, 0,
                          IF last.op = "check_achievements" /\ last.user = user_id
                          THEN "again" ELSE "ok",
                          r.ret)
        /\ UNCHANGED <<channel_multipliers, seasonal_events, handlers, summary>>
        /\ UNCHANGED <<day, sec, clans, users, logs, config, shop,
                       last_message_time, user_daily_points>>

(* setchannelmultiplier (and its slash variant), lines 2085-2100.  The     *)
(* REAL multiplier is kept in tenths: 0.1 is 1 and 5.0 is 50.              *)
setchannelmultiplier(channel, multiplier) ==
    /\ UNCHANGED <<seasonal_events, handlers, summary>>
    /\ UNCHANGED <<day, sec, clans, users, logs, achievements, config, shop,
                   last_message_time, user_daily_points>>
    /\ IF multiplier < 1 \/ multiplier > 50
       THEN /\ last' = result("setchannelmultiplier", 0, NoClan, multiplier, "invalid", None)
            /\ UNCHANGED channel_multipliers
       ELSE /\ last' = result("setchannelmultiplier", 0, NoClan, multiplier, "ok", None)
            /\ channel_multipliers' =
                  [ch \in DOMAIN channel_multipliers \cup {channel} |->
                      IF ch = channel THEN multiplier ELSE channel_multipliers[ch]]

(* createseasonalevent, lines 2104-2126.  The multiplier is kept in tenths *)
(* (0.5 is 5, 3.0 is 30) and a 'YYYY-MM-DD' text as the day it names;      *)
(* dates_ok is FALSE when strptime rejects one of the two texts.  A second *)
(* event of the same name breaks the PRIMARY KEY and is not stored.        *)
createseasonalevent(name, start_date, end_date, multiplier, dates_ok) ==
    /\ UNCHANGED <<channel_multipliers, handlers, summary>>
    /\ UNCHANGED <<day, sec, clans, users, logs, achievements, config, shop,
                   last_message_time, user_daily_points>>
    /\ IF ~dates_ok
       THEN /\ last' = result("createseasonalevent", 0, NoClan, multiplier, "invalid_date", None)
            /\ UNCHANGED seasonal_events
       ELSE IF multiplier < 5 \/ multiplier > 30
       THEN /\ last' = result("createseasonalevent", 0, NoClan, multiplier, "invalid", None)
            /\ UNCHANGED seasonal_events
       ELSE IF name \in DOMAIN seasonal_events
       THEN /\ last' = result("createseasonalevent", 0, NoClan, multiplier, "exception", None)
            /\ UNCHANGED seasonal_events
       ELSE /\ last' = result("createseasonalevent", 0, NoClan, multiplier, "ok", None)
            /\ seasonal_events' =
                  [e \in DOMAIN seasonal_events \cup {name} |->
                      IF e = name
                      THEN [start_date |-> start_date, end_date |-> end_date,
                            point_multiplier |-> multiplier, is_active |-> 1]
                      ELSE seasonal_events[e]]

(* syncclans (and slash_syncclans), lines 1731-1768; members gives the     *)
(* members of each role of the guild.                                      *)
syncclans(members) ==
    LET r == sync_roles(clans, users, users, members, 1)
    IN  /\ users' = r.users
        /\ last' = result("syncclans", 0, NoClan, 0,
                          IF r.ok THEN "ok" ELSE "exception", None)
        /\ UNCHANGED <<channel_multipliers, seasonal_events, handlers, summary>>
        /\ UNCHANGED <<day, sec, clans, logs, achievements, config, shop,
                       last_message_time, user_daily_points>>

(* A call add_points_to_clan_and_user(user_id, clan, amount, source,       *)
(* channel_id) on its own.  last.val is the value the call returns;        *)
(* last.ret names the gate that refused it: "no_clan" and "clan_cap" for   *)
(* the two refusals of can_add_to_clan, "daily_limit", and "exception" for *)
(* a commit that failed.                                                   *)
award(user_id, clan, amount, source, commit_ok) ==
    LET a    == add_points_to_clan_and_user(
                    clans, users, logs, achievements, user_daily_points,
                    user_id, clan, amount, source, day, sec, commit_ok)
        gate == IF a.ret THEN "ok"
                ELSE IF clan \notin DOMAIN clans THEN "no_clan"
                ELSE a.why
    IN  /\ Len(logs) < MaxLog
        /\ clans' = a.clans
        /\ users' = a.users
        /\ logs' = a.logs
        /\ achievements' = a.achievements
        /\ user_daily_points' = a.udp
        /\ last' = result("award", user_id, clan, amount, gate, a.ret)
        /\ UNCHANGED <<channel_multipliers, seasonal_events, handlers, summary>>
        /\ UNCHANGED <<day, sec, config, shop, last_message_time>>

(* A call get_user_clan(user_id, guild) on its own for a member with the   *)
(* given roles (guild = FALSE is the call without a guild).  last.val is   *)
(* the value the call returns and last.amount the number of the role set;  *)
(* last.ret is "again" when the call before it was the same one, "stored"  *)
(* when the call wrote the users table and "kept" otherwise.               *)
RoleSets == <<{}, {BonusRoleName}, {Wolves}, {"B"}, {BonusRoleName, "B"}, {Wolves, "B"}>>

role_set(roles) == CHOOSE k \in 1..Len(RoleSets) : RoleSets[k] = roles

user_clan(user_id, guild, roles) ==
    LET g == get_user_clan(users, clans, user_id, guild, roles)
    IN  /\ users' = g.users
        /\ last' = result("get_user_clan", user_id,
                          IF guild THEN "guild" ELSE NoClan, role_set(roles),
                          IF /\ last.op = "get_user_clan"
                             /\ last.user = user_id
                             /\ last.clan = (IF guild THEN "guild" ELSE NoClan)
                             /\ last.amount = role_set(roles)
                          THEN "again"
                          ELSE IF g.users # users THEN "stored" ELSE "kept",
                          g.ret)
        /\ UNCHANGED <<channel_multipliers, seasonal_events, handlers, summary>>
        /\ UNCHANGED <<day, sec, clans, logs, achievements, config, shop,
                       last_message_time, user_daily_points>>

(* Mutant of top_clans: the summary starts the new week itself, archiving  *)
(* every clan's points and setting them to 0 after it has read them.       *)
top_clans_reset(cl, limit) ==
    [rows  |-> {T \in SUBSET DOMAIN cl :
                  /\ Cardinality(T) = (IF Cardinality(DOMAIN cl) < limit
                                       THEN Cardinality(DOMAIN cl) ELSE limit)
                  /\ \A c \in T, o \in DOMAIN cl \ T :
                        cl[c].points >= cl[o].points},
     clans |-> [c \in DOMAIN cl |->
                  [cl[c] EXCEPT !.last_week_points = cl[c].points, !.points = 0]]]

(* SELECT name, points FROM clans ORDER BY points DESC LIMIT 3 (line       *)
(* 1914): rows is the set of the answers the query may give, one for each  *)
(* way of ordering clans of equal points; the table is left as it is.      *)
top_clans(cl, limit) ==
    [rows  |-> {T \in SUBSET DOMAIN cl :
                  /\ Cardinality(T) = (IF Cardinality(DOMAIN cl) < limit
                                       THEN Cardinality(DOMAIN cl) ELSE limit)
                  /\ \A c \in T, o \in DOMAIN cl \ T :
                        cl[c].points >= cl[o].points},
     clans |-> cl]

(* weekly_summary, lines 1908-1928, from the start of a run of the daily   *)
(* loop to its first await: on a Monday it reads the three clans with the  *)
(* most points and, when there are clans and a guild has a channel named   *)
(* general, announcements or clan-updates (has_channel), is suspended at   *)
(* the send of the summary (line 1925).                                   *)
weekly_summary(has_channel) ==
    /\ summary.at = "idle"
    /\ UNCHANGED <<day, sec, users, logs, achievements, config, shop,
                   channel_multipliers, seasonal_events, handlers,
                   last_message_time, user_daily_points>>
    /\ IF weekday(day) # 0
       THEN /\ last' = result("weekly_summary", 0, NoClan, 0, "not_monday", None)
            /\ UNCHANGED <<clans, summary>>
       ELSE \E T \in top_clans(clans, 3).rows :
               /\ clans' = top_clans(clans, 3).clans
               /\ last' = result("weekly_summary", 0, NoClan, Cardinality(T),
                                 IF T # {} /\ has_channel THEN "send" ELSE "ok",
                                 None)
               /\ summary' = IF T # {} /\ has_channel
                             THEN [at  |-> "send",
                                   top |-> {[name |-> c, points |-> clans[c].points] : c \in T}]
                             ELSE summary

(* await channel.send(msg) of weekly_summary returns and the run ends. *)
summary_sent ==
    /\ summary.at = "send"
    /\ summary' = [at |-> "idle", top |-> {}]
    /\ last' = result("weekly_summary", 0, NoClan, Cardinality(summary.top), "sent", None)
    /\ UNCHANGED <<day, sec, clans, users, logs, achievements, config, shop,
                   channel_multipliers, seasonal_events, handlers,
                   last_message_time, user_daily_points>>

----------------------------------------------------------------------------
(* Spec: the award engine.  One clan, the admin who creates it and lowers  *)
(* its weekly cap, and two members who earn points by messages and by      *)
(* admin additions over a Friday, the Saturday after it and the Monday of  *)
(* the next week.                                                          *)

AwardDays == {5, 7}
AwardAmounts == {200, 300, 501}
AwardCaps == {500}
AwardRoles == {{Wolves}}

Next ==
    \/ \E d \in AwardDays : NextDay(d)
    \/ \E u \in UserIds, r \in AwardRoles : on_message(u, ShortMessage, r, TRUE)
    \/ \E u \in UserIds, n \in AwardAmounts, r \in AwardRoles : addpoints(u, n, r, TRUE)
    \/ createclan(Wolves)
    \/ \E cap \in AwardCaps : setweeklycap(Wolves, cap)

Spec == Init /\ [][Next]_vars

----------------------------------------------------------------------------
(* What the claims speak of *)

(* The points a read of the clan finds: 0 when the stored week is past. *)
CurrentPoints(c) ==
    IF clans[c].last_week_start < get_week_start(day) THEN 0 ELSE clans[c].points

(* The points the daily tracker holds for the user on day d. *)
PointsToday(udp, u, d) == IF udp[u].date = d THEN udp[u].points ELSE 0

DayOf(t) == (t \div SecondsPerDay) - 7

RECURSIVE SumLog(_, _, _)
SumLog(lg, keep(_), i) ==
    IF i > Len(lg) THEN 0
    ELSE (IF keep(lg[i]) THEN lg[i].amount ELSE 0) + SumLog(lg, keep, i + 1)

(* The sum of the user's awards (positive log rows) written on day d. *)
AwardedOn(u, d) ==
    LET keep(e) == e.user_id = u /\ e.amount > 0 /\ DayOf(e.timestamp) = d
    IN  SumLog(logs, keep, 1)

(* A step of Spec that is an award call: a message or an admin addition. *)
IsAward ==
    \E u \in UserIds, r \in AwardRoles :
        \/ on_message(u, ShortMessage, r, TRUE)
        \/ \E n \in AwardAmounts : addpoints(u, n, r, TRUE)

(* C1: cap invariant.  An award call on a clan is refused by the clan cap  *)
(* exactly when the clan's current points plus the amount exceed its       *)
(* max_points (equality is accepted), a refusal leaves the points as the   *)
(* read found them, and a clan whose points were at most max_points before *)
(* the call has points at most max_points after it.                        *)
C1_CapInvariant ==
    [][ (IsAward /\ last'.ret \in {"ok", "clan_cap", "daily_limit"}) =>
            LET c   == last'.clan
                n   == last'.amount
                cur == CurrentPoints(c)
            IN  /\ (last'.ret = "clan_cap") <=> (cur + n > clans[c].max_points)
                /\ (last'.ret = "clan_cap") => (clans'[c].points = cur)
                /\ (clans[c].points <= clans[c].max_points)
                      => (clans'[c].points <= clans'[c].max_points)
      ]_vars

(* C1 witness: an award was accepted that brought the clan exactly to its  *)
(* lowered cap.                                                            *)
C1_Witness ==
    /\ last.op \in {"addpoints", "on_message"}
    /\ last.ret = "ok"
    /\ last.clan \in DOMAIN clans
    /\ clans[last.clan].max_points = 500
    /\ clans[last.clan].points = clans[last.clan].max_points

(* C3: daily budget.  An award call that reaches the budget gate is        *)
(* admitted exactly when the user's points of today plus the amount are at *)
(* most 500, a refusal leaves the user's points of today as they were, an  *)
(* admitted award adds its amount to them, and the awards logged for one   *)
(* user on one day never sum to more than 500.                             *)
C3_DailyBudget ==
    /\ [](\A u \in UserIds : \A d \in {4} \cup AwardDays : AwardedOn(u, d) <= 500)
    /\ [][ (IsAward /\ last'.ret \in {"ok", "daily_limit"}) =>
            LET u     == last'.user
                n     == last'.amount
                today == PointsToday(user_daily_points, u, day)
            IN  /\ (last'.ret = "ok") <=> (today + n <= 500)
                /\ (last'.ret = "daily_limit")
                      => (PointsToday(user_daily_points', u, day) = today)
                /\ (last'.ret = "ok")
                      => (PointsToday(user_daily_points', u, day) = today + n)
         ]_vars

(* C3 witness: after 300, an award of 200 on the same day was admitted and *)
(* filled the budget.                                                      *)
C3_Witness ==
    /\ last.op = "addpoints"
    /\ last.ret = "ok"
    /\ last.amount = 200
    /\ user_daily_points[last.user] = [date |-> day, points |-> 500]
    /\ AwardedOn(last.user, day) = 500

(* C10: admin additions bypass the daily budget.  An addpoints call with   *)
(* 0 < amount <= 10000 for a member of a clan with room under its cap      *)
(* succeeds and leaves the daily tracker unchanged.                        *)
C10_AdminBypass ==
    [][ \A u \in UserIds, n \in AwardAmounts, r \in AwardRoles :
            ( /\ addpoints(u, n, r, TRUE)
              /\ 0 < n /\ n <= 10000
              /\ Wolves \in DOMAIN clans
              /\ CurrentPoints(Wolves) + n <= clans[Wolves].max_points )
            => ( /\ last'.ret = "ok"
                 /\ user_daily_points' = user_daily_points )
      ]_vars

----------------------------------------------------------------------------
(* SpecLedger: every handler that writes a user's points or a log row.     *)

LedgerAdd == {200}
LedgerRemove == {200}
LedgerDays == {7}

LedgerNext ==
    \/ \E d \in LedgerDays : NextDay(d)
    \/ createclan(Wolves)
    \/ \E u \in UserIds : assignclan(TRUE, u, Wolves)
    \/ \E u \in UserIds : on_message(u, ShortMessage, {Wolves}, TRUE)
    \/ \E u \in UserIds, n \in LedgerAdd : addpoints(u, n, {Wolves}, TRUE)
    \/ \E u \in UserIds, n \in LedgerRemove : removepoints(u, n, {Wolves})
    \/ additem("hat", 50)
    \/ \E u \in UserIds : purchase(u, "hat")

SpecLedger == Init /\ [][LedgerNext]_vars

(* The sum of the amounts of the user's log rows. *)
LedgerOf(u) ==
    LET keep(e) == e.user_id = u
    IN  SumLog(logs, keep, 1)

(* C2: ledger-sum invariant.  For every user the amounts of the user's log *)
(* rows sum to the user's stored points.                                   *)
C2_LedgerSum ==
    \A u \in DOMAIN users : LedgerOf(u) = users[u].points

----------------------------------------------------------------------------
(* SpecRate: messages of two members seconds apart.                        *)

RateMessages == {ShortMessage, [length |-> 2, space |-> FALSE], [length |-> 3, space |-> TRUE]}
RateRoles == {{}, {Wolves}}

RateNext ==
    \/ \E k \in SecSteps : Tick(k)
    \/ createclan(Wolves)
    \/ \E u \in UserIds, m \in RateMessages, r \in RateRoles : on_message(u, m, r, TRUE)

SpecRate == Init /\ [][RateNext]_vars

(* C4: rate limiting.  An eligible message less than 5 seconds after the   *)
(* user's last accepted one is rejected and leaves last_message_time as it *)
(* was; one 5 or more seconds after it passes the gate and its time is     *)
(* stored as the user's last-award time.                                   *)
C4_RateLimit ==
    [][ \A u \in UserIds, r \in RateRoles :
            on_message(u, ShortMessage, r, TRUE) =>
                IF time_time(day, sec) - last_message_time[u] < 5
                THEN /\ last'.ret = "rate_limited"
                     /\ last_message_time' = last_message_time
                ELSE /\ last'.ret # "rate_limited"
                     /\ last_message_time'[u] = time_time(day, sec)
      ]_vars

(* C4 witness: a message 4 seconds after the accepted one was rejected and *)
(* the stored time is still that of the accepted one.                      *)
C4_Witness ==
    /\ last.op = "on_message"
    /\ last.ret = "rate_limited"
    /\ sec = 4
    /\ last_message_time[last.user] = time_time(day, 0)

----------------------------------------------------------------------------
(* SpecWeek: a clan read by claninfo and by the award and removal handlers *)
(* in the week it was created, the week after and three weeks after.       *)

WeekDays == {5, 7, 21}
WeekAmounts == {200, 300}

WeekNext ==
    \/ \E d \in WeekDays : NextDay(d)
    \/ createclan(Wolves)
    \/ \E c \in ClanNames : claninfo(c)
    \/ \E u \in UserIds, n \in WeekAmounts : addpoints(u, n, {Wolves}, TRUE)
    \/ \E u \in UserIds, n \in WeekAmounts : removepoints(u, n, {Wolves})

SpecWeek == Init /\ [][WeekNext]_vars

(* Monday 00:00 UTC of the week of day d. *)
Monday(d) == d - (d % 7)

(* C5: weekly rollover effect.  A read of a clan whose last_week_start is  *)
(* earlier than this week's Monday returns 0 and leaves last_week_points = *)
(* the points stored before, points = 0 and last_week_start = this week's  *)
(* Monday; a read of a clan whose last_week_start is not earlier returns   *)
(* the stored points and changes nothing.                                  *)
C5_Rollover ==
    [][ \A c \in ClanNames :
            (claninfo(c) /\ c \in DOMAIN clans) =>
                IF clans[c].last_week_start < Monday(day)
                THEN /\ last'.val = 0
                     /\ clans' = [clans EXCEPT ![c] =
                                    [points |-> 0,
                                     last_week_points |-> clans[c].points,
                                     last_week_start |-> Monday(day),
                                     max_points |-> clans[c].max_points]]
                ELSE /\ last'.val = clans[c].points
                     /\ clans' = clans
      ]_vars

(* C5 witness: three weeks after its creation a clan with 300 points was   *)
(* read: the read returned 0 and archived the 300.                         *)
C5_Witness ==
    /\ last.op = "claninfo"
    /\ last.val = 0
    /\ day = 21
    /\ last.clan \in DOMAIN clans
    /\ clans[last.clan] = [points |-> 0, last_week_points |-> 300,
                           last_week_start |-> 21, max_points |-> 20000]

(* C6: at most one rollover per clan per week.  In a step that stays in    *)
(* the week, a clan whose last_week_start is this week's Monday keeps its  *)
(* last_week_points and its last_week_start, whichever handler reads it.   *)
C6_OneRolloverPerWeek ==
    [][ \A c \in DOMAIN clans :
            (clans[c].last_week_start = Monday(day) /\ Monday(day') = Monday(day))
                => /\ c \in DOMAIN clans'
                   /\ clans'[c].last_week_points = clans[c].last_week_points
                   /\ clans'[c].last_week_start = clans[c].last_week_start
      ]_vars

(* C6 witness: a clan rolled over this week (300 archived) earned points   *)
(* after the rollover and was then read again by claninfo.                 *)
C6_Witness ==
    /\ last.op = "claninfo"
    /\ last.ret = "ok"
    /\ clans[last.clan].last_week_start = Monday(day)
    /\ clans[last.clan].last_week_points = 300
    /\ clans[last.clan].points > 0
    /\ last.val = clans[last.clan].points

----------------------------------------------------------------------------
(* SpecAch: achievements, evaluated after each award and by direct calls.  *)

AchDays == {5}
AchAmounts == {200, 300}

AchNext ==
    \/ \E d \in AchDays : NextDay(d)
    \/ createclan(Wolves)
    \/ \E u \in UserIds, n \in AchAmounts : addpoints(u, n, {Wolves}, TRUE)
    \/ \E u \in UserIds, n \in AchAmounts : removepoints(u, n, {Wolves})
    \/ \E u \in UserIds : evaluate(u)

SpecAch == Init /\ [][AchNext]_vars

(* A call of check_achievements(u) that directly follows one for u. *)
SecondCall(u) ==
    /\ evaluate(u)
    /\ last.op = "check_achievements"
    /\ last.user = u

(* C7 as stated: the second of two calls in a row returns no name. *)
C7_SecondCallEmpty ==
    [][ \A u \in UserIds : SecondCall(u) => (last'.val = <<>>) ]_vars

(* C7 as amended: the second of two calls of check_achievements for a user *)
(* in a row returns the same list as the first, every milestone the user's *)
(* points reach, and inserts no row.                                       *)
C7_SecondCallSame ==
    [][ \A u \in UserIds :
            SecondCall(u) =>
                /\ last'.val = last.val
                /\ last'.val = SelectSeq(<<100, 500, 1000, 2500, 5000, 10000>>,
                                         LAMBDA m : u \in DOMAIN users /\ m <= users[u].points)
                /\ achievements' = achievements
      ]_vars

(* C7 witness: a second call in a row returned a milestone. *)
C7_Witness ==
    /\ last.op = "check_achievements"
    /\ last.ret = "again"
    /\ last.val # <<>>

(* C8: achievement uniqueness.  The table never holds two rows for one     *)
(* (user, name) pair, and no step removes or changes a row it holds.       *)
C8_Unique ==
    /\ [](\A a, b \in achievements :
             (a.user_id = b.user_id /\ a.achievement_name = b.achievement_name) => a = b)
    /\ [][ \A a \in achievements : a \in achievements' ]_vars

(* C8 witness: a user holding a milestone earned on an earlier day was     *)
(* evaluated again.                                                        *)
C8_Witness ==
    /\ last.op = "check_achievements"
    /\ \E a \in achievements :
          a.user_id = last.user /\ a.earned_date < time_time(day, sec)

----------------------------------------------------------------------------
(* SpecAmount: the amount a message earns, by role, weekday and length.    *)

AmountDays == {5, 6, 7}
AmountMessages == {ShortMessage, [length |-> 50, space |-> FALSE],
                   [length |-> 60, space |-> FALSE]}
AmountRoles == {{Wolves}, {Wolves, BonusRoleName}}

AmountNext ==
    \/ \E d \in AmountDays : NextDay(d)
    \/ createclan(Wolves)
    \/ setbonusrole(BonusRoleName)
    \/ \E m \in AmountMessages, r \in AmountRoles : on_message(1, m, r, TRUE)

SpecAmount == Init /\ [][AmountNext]_vars

(* C9: message award amount.  The amount passed to the award is            *)
(* roundHalfUp(b * w) + l: b = 5 with the configured bonus role and 1      *)
(* without, w = 1.5 on Saturday and Sunday and 1 otherwise, l = 1 for a    *)
(* message longer than 50 characters and 0 otherwise.                      *)
C9_MessageAmount ==
    [][ \A m \in AmountMessages, r \in AmountRoles :
            (on_message(1, m, r, TRUE) /\ last'.ret \in {"ok", "clan_cap", "daily_limit"}) =>
                LET b == IF config.bonus_role # "" /\ config.bonus_role \in r THEN 5 ELSE 1
                    l == IF m.length > 50 THEN 1 ELSE 0
                    bw2 == IF day % 7 \in {5, 6} THEN 3 * b ELSE 2 * b
                IN  last'.amount = ((bw2 + 1) \div 2) + l
      ]_vars
----------------------------------------------------------------------------
(* SpecEngine: add_points_to_clan_and_user called on its own, for two      *)
(* clans that exist and one that does not, on a Friday and on the Monday   *)
(* after it; the first user's awards come from messages, the second's from *)
(* an admin.                                                               *)

EngineDays == {7}
EngineAmounts == {200, 300, 501}
EngineClans == {Wolves, "B", "Ghost"}
EngineSources == {"message", "admin"}
EngineSourceOf == [u \in UserIds |-> IF u = 1 THEN "message" ELSE "admin"]

EngineNext ==
    \/ \E d \in EngineDays : NextDay(d)
    \/ \E c \in ClanNames : createclan(c)
    \/ setweeklycap(Wolves, 500)
    \/ \E u \in UserIds, c \in EngineClans, n \in EngineAmounts :
          award(u, c, n, EngineSourceOf[u], TRUE)

SpecEngine == Init /\ [][EngineNext]_vars

(* SpecFail: the same calls on one clan and on a clan that does not exist, *)
(* with commits that succeed and commits that fail.                        *)

FailClans == {Wolves, "Ghost"}

FailNext ==
    \/ \E d \in EngineDays : NextDay(d)
    \/ createclan(Wolves)
    \/ setweeklycap(Wolves, 500)
    \/ \E u \in UserIds, c \in FailClans, n \in EngineAmounts, ok \in BOOLEAN :
          award(u, c, n, "message", ok)

SpecFail == Init /\ [][FailNext]_vars

(* The clans table after a read of clan c on the present day. *)
AfterRead(c) ==
    IF c \in DOMAIN clans /\ clans[c].last_week_start < Monday(day)
    THEN [clans EXCEPT ![c] = [points |-> 0,
                               last_week_points |-> clans[c].points,
                               last_week_start |-> Monday(day),
                               max_points |-> clans[c].max_points]]
    ELSE clans

(* C11: hard gates.  An award refused because the clan does not exist,     *)
(* because the clan cap would be exceeded or because the daily budget      *)
(* would be exceeded leaves the users, the log and the achievements as     *)
(* they were, the clans as the read left them (a weekly rollover of the    *)
(* clan at most) and every user's points counted for today as they were.   *)
C11_HardGates ==
    [][ LET u == last'.user
            c == last'.clan
        IN  ( /\ last'.op = "award"
              /\ last'.ret \in {"no_clan", "clan_cap", "daily_limit"}
              /\ \E src \in EngineSources : award(u, c, last'.amount, src, TRUE) ) =>
                /\ last'.val = FALSE
                /\ users' = users
                /\ logs' = logs
                /\ achievements' = achievements
                /\ clans' = AfterRead(c)
                /\ \A v \in UserIds :
                      PointsToday(user_daily_points', v, day)
                          = PointsToday(user_daily_points, v, day)
      ]_vars

(* C11 witness: on the Monday an award of 501 to a user who holds points   *)
(* of the week before was refused by the daily budget; the call rolled the *)
(* clan over and reset the user's stale counter to 0 points of today.      *)
C11_Witness ==
    /\ last.op = "award"
    /\ last.ret = "daily_limit"
    /\ last.amount = 501
    /\ day = 7
    /\ last.user \in DOMAIN users
    /\ users[last.user].points > 0
    /\ user_daily_points[last.user] = [date |-> 7, points |-> 0]
    /\ clans[last.clan].points = 0
    /\ clans[last.clan].last_week_points > 0

(* C12: persistence failure is all-or-nothing.  An award whose commit      *)
(* fails returns False and leaves the users, the log, the achievements,    *)
(* the clans (a rollover by the read apart) and the user's points counted  *)
(* for today as they were.                                                 *)
C12_AllOrNothing ==
    [][ LET u == last'.user
            c == last'.clan
        IN  ( /\ last'.op = "award"
              /\ last'.ret = "exception"
              /\ award(u, c, last'.amount, "message", FALSE) ) =>
                /\ last'.val = FALSE
                /\ users' = users
                /\ logs' = logs
                /\ achievements' = achievements
                /\ clans' = AfterRead(c)
                /\ PointsToday(user_daily_points', u, day)
                      = PointsToday(user_daily_points, u, day)
      ]_vars

(* C13: successful award effect.  An award of n to user u in clan c that   *)
(* returns True adds n to the points a read of c finds, adds n to u's      *)
(* points (a new record has points n and clan c), appends one log row      *)
(* (u, n, source, channel), adds n to u's points counted for today and     *)
(* changes no other clan and no other user's points or daily counter.      *)
C13_AwardEffect ==
    [][ \A src \in EngineSources :
          LET u == last'.user
              c == last'.clan
              n == last'.amount
          IN  ( /\ last'.op = "award"
                /\ last'.ret = "ok"
                /\ award(u, c, n, src, TRUE) ) =>
                /\ last'.val = TRUE
                /\ clans' = [AfterRead(c) EXCEPT ![c].points = @ + n]
                /\ DOMAIN users' = DOMAIN users \cup {u}
                /\ users'[u] = IF u \in DOMAIN users
                               THEN [users[u] EXCEPT !.points = @ + n]
                               ELSE [clan_name |-> c, points |-> n]
                /\ \A v \in DOMAIN users \ {u} : users'[v] = users[v]
                /\ Len(logs') = Len(logs) + 1
                /\ SubSeq(logs', 1, Len(logs)) = logs
                /\ logs'[Len(logs')].user_id = u
                /\ logs'[Len(logs')].amount = n
                /\ logs'[Len(logs')].source = src
                /\ logs'[Len(logs')].channel_id = ChannelId
                /\ PointsToday(user_daily_points', u, day)
                      = PointsToday(user_daily_points, u, day) + n
                /\ \A v \in UserIds \ {u} : user_daily_points'[v] = user_daily_points[v]
      ]_vars

(* C13 witness: a second award on a later day of a new week to a user who  *)
(* already had points, while another clan and another user hold points.    *)
C13_Witness ==
    /\ last.op = "award"
    /\ last.ret = "ok"
    /\ last.clan = Wolves
    /\ day = 7
    /\ users[last.user].points > last.amount
    /\ clans[Wolves].points = last.amount
    /\ clans[Wolves].last_week_points > 0
    /\ user_daily_points[last.user] = [date |-> 7, points |-> last.amount]

(* C15: distinguishable rejections.  Two refused awards in a row that were *)
(* refused by different gates (no such clan, clan cap, daily budget,       *)
(* failed commit) return different values.                                 *)
C15_Distinguishable ==
    [][ ( /\ last.op = "award"
          /\ last'.op = "award"
          /\ last.ret # "ok"
          /\ last'.ret # "ok"
          /\ last'.ret # last.ret
          /\ \E ok \in BOOLEAN :
                award(last'.user, last'.clan, last'.amount, "message", ok) )
        => last'.val # last.val
      ]_vars
----------------------------------------------------------------------------
(* SpecMult: awards in a channel with a configured multiplier and during a *)
(* seasonal event that runs from the Friday to the Saturday.               *)

MultDays == {5, 7}
MultChannel == {20, 60}
MultSeasonal == {15, 40}

MultNext ==
    \/ \E d \in MultDays : NextDay(d)
    \/ createclan(Wolves)
    \/ \E m \in MultChannel : setchannelmultiplier(ChannelId, m)
    \/ \E m \in MultSeasonal, ok \in BOOLEAN : createseasonalevent("launch", 4, 5, m, ok)
    \/ \E u \in UserIds : on_message(u, ShortMessage, {Wolves}, TRUE)
    \/ \E u \in UserIds : addpoints(u, 200, {Wolves}, TRUE)

SpecMult == Init /\ [][MultNext]_vars

(* The multiplier of the channel and of the seasonal events running today, *)
(* in tenths, and the base amount multiplied by both and rounded half up.  *)
ChannelTenths ==
    IF ChannelId \in DOMAIN channel_multipliers THEN channel_multipliers[ChannelId] ELSE 10

RECURSIVE SeasonalTenths(_)
SeasonalTenths(names) ==
    IF names = {} THEN 10
    ELSE LET e == CHOOSE x \in names : TRUE
             m == IF seasonal_events[e].start_date <= day /\ day <= seasonal_events[e].end_date
                  THEN seasonal_events[e].point_multiplier ELSE 10
         IN  (m * SeasonalTenths(names \ {e})) \div 10

Multiplied(base) ==
    (base * ChannelTenths * SeasonalTenths(DOMAIN seasonal_events) + 50) \div 100

(* C14: configured multipliers are applied.  When the channel has a        *)
(* multiplier or a seasonal event runs today, an accepted message award    *)
(* adds to the user and to the clan the base amount multiplied by them and *)
(* rounded half up.                                                        *)
C14_Multipliers ==
    [][ LET u == last'.user
            c == last'.clan
        IN  ( /\ last'.op = "on_message"
              /\ last'.ret = "ok"
              /\ on_message(u, ShortMessage, {Wolves}, TRUE)
              /\ (ChannelTenths # 10 \/ SeasonalTenths(DOMAIN seasonal_events) # 10) ) =>
                /\ users'[u].points
                      = (IF u \in DOMAIN users THEN users[u].points ELSE 0)
                          + Multiplied(last'.amount)
                /\ clans'[c].points = CurrentPoints(c) + Multiplied(last'.amount)
      ]_vars
----------------------------------------------------------------------------
(* SpecPoints: every handler that lowers points: removals, purchases and   *)
(* the weekly rollover, on a Friday and on the Monday after it.            *)

PointsDays == {7}
PointsRemove == {200, 300}
PointsCosts == {50, 250}

PointsNext ==
    \/ \E d \in PointsDays : NextDay(d)
    \/ createclan(Wolves)
    \/ claninfo(Wolves)
    \/ \E u \in UserIds : addpoints(u, 200, {Wolves}, TRUE)
    \/ \E u \in UserIds, n \in PointsRemove : removepoints(u, n, {Wolves})
    \/ \E cost \in PointsCosts : additem("hat", cost)
    \/ \E u \in UserIds : purchase(u, "hat")

SpecPoints == Init /\ [][PointsNext]_vars

(* C16: non-negative points.  Every clan's points and last_week_points and *)
(* every user's points are at least 0 in every state, and a removal or a   *)
(* purchase of more than the user's points is refused and leaves the       *)
(* user's points as they were.                                             *)
C16_NonNegative ==
    /\ [](/\ \A c \in DOMAIN clans :
                clans[c].points >= 0 /\ clans[c].last_week_points >= 0
          /\ \A u \in DOMAIN users : users[u].points >= 0)
    /\ [][ LET u == last'.user
           IN  ( /\ last'.op = "removepoints"
                 /\ removepoints(u, last'.amount, {Wolves})
                 /\ u \in DOMAIN users
                 /\ last'.amount > users[u].points ) =>
                   /\ last'.ret = "insufficient"
                   /\ users'[u].points = users[u].points
                   /\ logs' = logs
                   /\ clans' = clans
         ]_vars
    /\ [][ LET u == last'.user
           IN  ( /\ last'.op = "purchase"
                 /\ purchase(u, "hat")
                 /\ u \in DOMAIN users
                 /\ shop # <<>>
                 /\ shop[1].cost > users[u].points ) =>
                   /\ last'.ret = "insufficient"
                   /\ users' = users
         ]_vars

(* C16 witness: after the rollover left the clan with 0 points, a removal  *)
(* of the 200 points a member earned the week before was accepted and the  *)
(* clan's points stayed at 0.                                              *)
C16_Witness ==
    /\ last.op = "removepoints"
    /\ last.ret = "ok"
    /\ last.amount = 200
    /\ day = 7
    /\ clans[last.clan].points = 0
    /\ clans[last.clan].last_week_points = 200
    /\ users[last.user].points = 0
----------------------------------------------------------------------------
(* SpecDirectory: the handlers that write a user's clan_name, for members  *)
(* who hold the role of a clan, of the other clan, the bonus role or none. *)

DirectoryRoles == {{}, {Wolves}, {"B"}, {BonusRoleName, "B"}}
DirectoryAssign == {Wolves, "B", "Ghost"}
DirectoryMembers ==
    {m \in [{GuildRoles[i] : i \in 1..Len(GuildRoles)} -> SUBSET UserIds] :
        /\ m["@everyone"] = UserIds
        /\ m["Moderators"] = {1}
        /\ m[BonusRoleName] \in {{}, {2}}}

DirectoryNext ==
    \/ \E c \in ClanNames : createclan(c)
    \/ \E w \in BOOLEAN, u \in UserIds, c \in DirectoryAssign : assignclan(w, u, c)
    \/ \E m \in DirectoryMembers : syncclans(m)
    \/ \E u \in UserIds, r \in DirectoryRoles : on_message(u, ShortMessage, r, TRUE)
    \/ \E u \in UserIds, c \in DirectoryAssign : award(u, c, 200, "message", TRUE)

SpecDirectory == Init /\ [][DirectoryNext]_vars

(* C17: membership referential integrity.  In every state every user whose *)
(* stored clan_name is not null names a clan of the clans table.           *)
C17_ClanExists ==
    \A u \in DOMAIN users :
        users[u].clan_name # "" => users[u].clan_name \in DOMAIN clans

(* C17 witness: syncclans moved a member who had earned points to the clan *)
(* of the role the member holds.                                           *)
C17_Witness ==
    /\ last.op = "syncclans"
    /\ last.ret = "ok"
    /\ \E u \in DOMAIN users :
          /\ users[u].clan_name = "B"
          /\ users[u].points > 0
          /\ \E i \in 1..Len(logs) : logs[i].user_id = u
----------------------------------------------------------------------------
(* Under SpecLedger: the steps that lower a user's points.                 *)

(* C18 as stated: a user's points never decrease except in a removepoints  *)
(* step for that user; a purchase does not lower them.                     *)
C18_OnlyRemoval ==
    [][ \A u \in DOMAIN users :
            /\ u \in DOMAIN users'
            /\ (users'[u].points < users[u].points) =>
                   ( /\ last'.op = "removepoints"
                     /\ last'.user = u
                     /\ removepoints(u, last'.amount, {Wolves}) )
      ]_vars

(* C18 as amended: a user's points never decrease except in a step that is *)
(* an accepted removepoints for that user or an accepted purchase by that  *)
(* user, which lower them by the amount removed and by the item's cost.    *)
C18_RemovalOrPurchase ==
    [][ \A u \in DOMAIN users :
            /\ u \in DOMAIN users'
            /\ (users'[u].points < users[u].points) =>
                   /\ last'.user = u
                   /\ last'.ret = "ok"
                   /\ users'[u].points = users[u].points - last'.amount
                   /\ \/ last'.op = "removepoints" /\ removepoints(u, last'.amount, {Wolves})
                      \/ last'.op = "purchase" /\ purchase(u, "hat")
      ]_vars

(* C18 witness: a member with 200 points bought the item that costs 50.    *)
C18_Witness ==
    /\ last.op = "purchase"
    /\ last.ret = "ok"
    /\ last.amount = 50
    /\ users[last.user].points = 150

----------------------------------------------------------------------------
(* Under SpecRate: messages that are too short or all whitespace.          *)

(* C19: ineligible messages are free.  A message of fewer than 3           *)
(* characters or of whitespace only makes no award and leaves the sender's *)
(* last_message_time and daily counter as they were, so the rate limiter   *)
(* answers the sender's next message as it would have without it.          *)
C19_IneligibleFree ==
    [][ \A m \in RateMessages, r \in RateRoles :
          LET u == last'.user
          IN  ( /\ last'.op = "on_message"
                /\ (m.length < 3 \/ m.space)
                /\ on_message(u, m, r, TRUE) ) =>
                  /\ last'.ret \in {"ineligible", "rate_limited"}
                  /\ last_message_time' = last_message_time
                  /\ user_daily_points' = user_daily_points
                  /\ users' = users
                  /\ clans' = clans
                  /\ logs' = logs
                  /\ achievements' = achievements
      ]_vars

(* C19 witness: 5 seconds after an accepted message the cooldown was over, *)
(* the user sent an ineligible message, and the stored time is still that  *)
(* of the accepted one.                                                    *)
C19_Witness ==
    /\ last.op = "on_message"
    /\ last.ret = "ineligible"
    /\ sec = 5
    /\ last_message_time[last.user] = time_time(day, 0)

----------------------------------------------------------------------------
(* SpecLoop: two message events whose tasks the event loop interleaves at  *)
(* their awaits, for members whose points are one message away from the    *)
(* daily budget and from a milestone.                                      *)

LoopMessages == {ShortMessage, [length |-> 2, space |-> FALSE]}
LoopAdd == {499, 500}

LoopNext ==
    \/ \E k \in SecSteps : Tick(k)
    \/ createclan(Wolves)
    \/ \E u \in UserIds, n \in LoopAdd : addpoints(u, n, {Wolves}, TRUE)
    \/ \E e \in Events, u \in UserIds, m \in LoopMessages : on_message_task(e, u, m, {Wolves})
    \/ \E e \in Events : send_returns(e)
    \/ \E e \in Events : process_commands(e)

SpecLoop == Init /\ [][LoopNext]_vars

(* The task of event e went past the rate-limit gate. *)
Passed(e) ==
    /\ handlers[e].at # "none"
    /\ handlers[e].ret \notin {"rate_limited", "ineligible"}

(* C20: no double pass of the gate.  Of two message events of one user     *)
(* whose tasks both went past the rate-limit gate, one did so at least 5   *)
(* seconds after the other, and no user's points of today, counted or      *)
(* logged, exceed 500.                                                     *)
C20_NoDoublePass ==
    /\ \A e1, e2 \in Events :
          (e1 # e2 /\ Passed(e1) /\ Passed(e2) /\ handlers[e1].user = handlers[e2].user)
              => \/ handlers[e1].time - handlers[e2].time >= 5
                 \/ handlers[e2].time - handlers[e1].time >= 5
    /\ \A u \in UserIds :
          /\ PointsToday(user_daily_points, u, day) <= 500
          /\ AwardedOn(u, day) <= 500

(* C20 witness: while the task of a user's accepted message was suspended  *)
(* at an await, the task of a second message of the same user at the same  *)
(* second ran and was stopped by the rate limiter.                         *)
C20_Witness ==
    \E e1, e2 \in Events :
        /\ handlers[e1].at \in {"send", "process_commands"}
        /\ handlers[e1].ret = "ok"
        /\ handlers[e2].at = "process_commands"
        /\ handlers[e2].ret = "rate_limited"
        /\ handlers[e1].user = handlers[e2].user
        /\ handlers[e1].time = handlers[e2].time

----------------------------------------------------------------------------
(* SpecLookup: the directory read.  Two clans are created, members are     *)
(* assigned by the admin, and get_user_clan is called for members holding  *)
(* no role, a role that names no clan, one clan role, or two.              *)

LookupRoles == {RoleSets[k] : k \in 1..Len(RoleSets)}

LookupNext ==
    \/ \E c \in ClanNames : createclan(c)
    \/ \E u \in UserIds, c \in ClanNames : assignclan(TRUE, u, c)
    \/ \E u \in UserIds, g \in BOOLEAN, r \in LookupRoles : user_clan(u, g, r)

SpecLookup == Init /\ [][LookupNext]_vars

(* The stored assignment of the user, NoClan when the user has no row. *)
Stored(us, u) == IF u \in DOMAIN us THEN us[u].clan_name ELSE NoClan

(* C21: get_user_clan(user, guild) for a member holding exactly one role   *)
(* that names a known clan, different from the stored assignment, stores   *)
(* the role's name as the user's clan (a new user gets 0 points, a known   *)
(* user keeps the points) and returns it; for a member none of whose roles *)
(* names a clan it returns the stored assignment (NoClan for none) and     *)
(* changes nothing; the same call made a second time changes nothing and   *)
(* returns the same value.                                                 *)
C21_Reconcile ==
    [][\A r \in LookupRoles :
         (last'.op = "get_user_clan" /\ user_clan(last'.user, TRUE, r)) =>
            LET u     == last'.user
                named == {x \in r : x \in DOMAIN clans}
            IN  /\ (Cardinality(named) = 1 /\ named # {Stored(users, u)}) =>
                      /\ named = {last'.val}
                      /\ DOMAIN users' = DOMAIN users \cup {u}
                      /\ users'[u].clan_name = last'.val
                      /\ users'[u].points = (IF u \in DOMAIN users
                                             THEN users[u].points ELSE 0)
                      /\ \A o \in DOMAIN users \ {u} : users'[o] = users[o]
                /\ named = {} =>
                      /\ last'.val = Stored(users, u)
                      /\ users' = users
                /\ last'.ret = "again" =>
                      /\ last'.val = last.val
                      /\ users' = users
                /\ clans' = clans /\ logs' = logs
                /\ achievements' = achievements
                /\ last_message_time' = last_message_time
                /\ user_daily_points' = user_daily_points]_vars

(* A member without a row and with the one clan role "B" (and the bonus    *)
(* role, which names no clan) was looked up: the row was created with 0    *)
(* points and the role's name, and the call returned it.                   *)
C21_Witness ==
    /\ last.op = "get_user_clan"
    /\ last.ret = "stored"
    /\ last.amount = role_set({BonusRoleName, "B"})
    /\ last.val = "B"
    /\ Wolves \in DOMAIN clans
    /\ last.user \in DOMAIN users
    /\ users[last.user] = [clan_name |-> "B", points |-> 0]

----------------------------------------------------------------------------
(* SpecAdmin: the administrator's commands with amounts, caps and names    *)
(* inside and outside their ranges, beside members' messages, on a Friday  *)
(* and on the Monday after it.                                             *)

AdminDays == {7}
AdminAmounts == {0, 200, 10001}
AdminRemove == {0 - 5, 200, 300, 10001}
AdminCaps == {99, 100, 500, 20001}
AdminNames == {Wolves, "Iron/Wolves", Name51}

AdminNext ==
    \/ \E d \in AdminDays : NextDay(d)
    \/ \E c \in AdminNames : createclan(c)
    \/ \E cap \in AdminCaps : setweeklycap(Wolves, cap)
    \/ \E u \in UserIds : on_message(u, ShortMessage, {Wolves}, TRUE)
    \/ \E u \in UserIds, n \in AdminAmounts : addpoints(u, n, {Wolves}, TRUE)
    \/ \E u \in UserIds, n \in AdminRemove : removepoints(u, n, {Wolves})

SpecAdmin == Init /\ [][AdminNext]_vars

(* C22: administrative removal.  A removepoints call with 0 < amount <=    *)
(* the user's points lowers the user's points by the amount, sets the      *)
(* points of the user's clan to max(0, current - amount), where current is *)
(* what a read of the clan finds, and appends one log row with -amount and *)
(* source "admin_removal"; an addpoints call that adds points appends one  *)
(* log row with source "admin"; neither changes last_message_time.         *)
C22_AdminRemoval ==
    /\ [][ LET u == last'.user
               n == last'.amount
           IN  ( /\ last'.op = "removepoints"
                 /\ removepoints(u, n, {Wolves})
                 /\ Wolves \in DOMAIN clans
                 /\ u \in DOMAIN users
                 /\ 0 < n /\ n <= users[u].points ) =>
                   /\ users'[u].points = users[u].points - n
                   /\ clans'[Wolves].points = max(0, CurrentPoints(Wolves) - n)
                   /\ logs' = Append(logs, [user_id |-> u, amount |-> 0 - n,
                                            source |-> "admin_removal",
                                            timestamp |-> time_time(day, sec),
                                            channel_id |-> ChannelId])
                   /\ last_message_time' = last_message_time
         ]_vars
    /\ [][ ( /\ last'.op = "addpoints"
             /\ addpoints(last'.user, last'.amount, {Wolves}, TRUE)
             /\ last'.ret = "ok" ) =>
               /\ Len(logs') = Len(logs) + 1
               /\ logs'[Len(logs')].source = "admin"
               /\ logs'[Len(logs')].amount = last'.amount
               /\ last_message_time' = last_message_time
         ]_vars

----------------------------------------------------------------------------
(* SpecNames: createclan with names of every kind (letters and digits with *)
(* the three separators, separators alone, a slash, 50 and 51 letters),    *)
(* and the admin assigning members to the clans created.                   *)

NamesInputs == {Wolves, "a b", "---", "Iron/Wolves", Name50, Name51}

NamesNext ==
    \/ \E c \in NamesInputs : createclan(c)
    \/ \E u \in UserIds, c \in NamesInputs : assignclan(TRUE, u, c)

SpecNames == Init /\ [][NamesNext]_vars

(* The name is made only of alphanumeric characters, spaces, hyphens and   *)
(* underscores.                                                            *)
AllowedCharacters(name) ==
    \A i \in 1..Len(chars(name)) : chars(name)[i] \in Alnum \cup {" ", "-", "_"}

(* C23: clan name validation.  createclan succeeds for every name that is  *)
(* not a clan yet, has at most 50 characters and is made only of           *)
(* alphanumeric characters, spaces, hyphens and underscores; it fails with *)
(* the invalid-name answer and creates no clan for every name of more than *)
(* 50 characters or with any other character.                              *)
C23_NameValidation ==
    [][ LET name == last'.clan
        IN  (last'.op = "createclan" /\ createclan(name)) =>
              /\ ( /\ name \notin DOMAIN clans
                   /\ Len(chars(name)) <= 50
                   /\ AllowedCharacters(name) ) =>
                     /\ last'.ret = "ok"
                     /\ DOMAIN clans' = DOMAIN clans \cup {name}
              /\ ( Len(chars(name)) > 50 \/ ~AllowedCharacters(name) ) =>
                     /\ last'.ret = "invalid_name"
                     /\ clans' = clans
      ]_vars

----------------------------------------------------------------------------
(* Rejected commands, under SpecAdmin. *)

(* The tables and the in-memory trackers are as they were. *)
NothingWritten ==
    /\ clans' = clans
    /\ users' = users
    /\ logs' = logs
    /\ achievements' = achievements
    /\ config' = config
    /\ shop' = shop
    /\ last_message_time' = last_message_time
    /\ user_daily_points' = user_daily_points

(* C24: validation before mutation.  An addpoints or removepoints call     *)
(* with amount <= 0 or amount > 10000, a setweeklycap call with a cap      *)
(* outside 100..20000 and a createclan call with an invalid name or the    *)
(* name of a clan are each rejected, and leave every table and both        *)
(* in-memory trackers unchanged.                                           *)
C24_ValidationFirst ==
    /\ [][ ( /\ last'.op = "addpoints"
             /\ addpoints(last'.user, last'.amount, {Wolves}, TRUE)
             /\ (last'.amount <= 0 \/ last'.amount > 10000) ) =>
               (last'.ret = "invalid_amount" /\ NothingWritten)
         ]_vars
    /\ [][ ( /\ last'.op = "removepoints"
             /\ removepoints(last'.user, last'.amount, {Wolves})
             /\ (last'.amount <= 0 \/ last'.amount > 10000) ) =>
               (last'.ret = "invalid_amount" /\ NothingWritten)
         ]_vars
    /\ [][ ( /\ last'.op = "setweeklycap"
             /\ setweeklycap(last'.clan, last'.amount)
             /\ (last'.amount < 100 \/ last'.amount > 20000) ) =>
               (last'.ret = "invalid_cap" /\ NothingWritten)
         ]_vars
    /\ [][ ( /\ last'.op = "createclan"
             /\ createclan(last'.clan)
             /\ \/ Len(chars(last'.clan)) > 50
                \/ ~AllowedCharacters(last'.clan)
                \/ last'.clan \in DOMAIN clans ) =>
               (last'.ret \in {"invalid_name", "exists"} /\ NothingWritten)
         ]_vars

(* C24 witness: a member has points, a log row and a message time, the     *)
(* clan has a cap of 500, and a removal of 10001 points was rejected.      *)
C24_Witness ==
    /\ last.op = "removepoints"
    /\ last.ret = "invalid_amount"
    /\ last.amount = 10001
    /\ last.user \in DOMAIN users
    /\ users[last.user].points >= 200
    /\ last_message_time[last.user] > 0
    /\ user_daily_points[last.user].points > 0
    /\ Wolves \in DOMAIN clans
    /\ clans[Wolves].max_points = 500
    /\ Len(logs) > 0

----------------------------------------------------------------------------
(* SpecSummary: the daily run of weekly_summary on a Friday and on the     *)
(* Monday after it, suspended at its send while members and the admin go   *)
(* on changing the points of two clans.                                    *)

SummaryDays == {7}
SummaryRoles == {{Wolves}, {"B"}}

SummaryNext ==
    \/ \E d \in SummaryDays : NextDay(d)
    \/ \E c \in ClanNames : createclan(c)
    \/ \E u \in UserIds, r \in SummaryRoles : on_message(u, ShortMessage, r, TRUE)
    \/ \E r \in SummaryRoles : addpoints(1, 200, r, TRUE)
    \/ \E r \in SummaryRoles : removepoints(1, 200, r)
    \/ \E ch \in BOOLEAN : weekly_summary(ch)
    \/ summary_sent

SpecSummary == Init /\ [][SummaryNext]_vars

(* C25: the weekly summary is read-only.  Every step of a run of           *)
(* weekly_summary, at any point between the steps of awards and admin      *)
(* commands, leaves every clan, user, log, achievement and config row and  *)
(* both in-memory trackers as they were; it does no rollover.              *)
C25_SummaryReadOnly ==
    [][ ((\E ch \in BOOLEAN : weekly_summary(ch)) \/ summary_sent) => NothingWritten ]_vars

(* C25 witness: on the Monday the summary was read while the clan still    *)
(* held last week's 200 points under last week's start, a member's message *)
(* then rolled the clan over while the run was suspended at its send, and  *)
(* the send returned.                                                      *)
C25_Witness ==
    /\ last.op = "weekly_summary"
    /\ last.ret = "sent"
    /\ day = 7
    /\ Wolves \in DOMAIN clans
    /\ clans[Wolves].last_week_start = 7
    /\ clans[Wolves].last_week_points = 200
    /\ clans[Wolves].points = 1
    /\ Len(logs) = 2

----------------------------------------------------------------------------
(* Refused awards and the rollover, under SpecEngine. *)

(* C26: the rollover survives a refused award.  When an award is attempted *)
(* on a clan whose stored week is past and is refused by the clan cap or   *)
(* by the daily limit, the clan is left rolled over: points 0,             *)
(* last_week_points the points it had and last_week_start this week's      *)
(* Monday.                                                                 *)
C26_RolloverSurvives ==
    [][ LET c == last'.clan
        IN  ( /\ last'.op = "award"
              /\ award(last'.user, c, last'.amount, EngineSourceOf[last'.user], TRUE)
              /\ c \in DOMAIN clans
              /\ clans[c].last_week_start < get_week_start(day)
              /\ last'.ret \in {"clan_cap", "daily_limit"} ) =>
                /\ last'.val = FALSE
                /\ clans' = [clans EXCEPT ![c] =
                                [points           |-> 0,
                                 last_week_points |-> clans[c].points,
                                 last_week_start  |-> get_week_start(day),
                                 max_points       |-> clans[c].max_points]]
                /\ users' = users
                /\ logs' = logs
      ]_vars

(* C26 witness: on the Monday an award of 501 points to the clan, whose    *)
(* cap is 500 and which earned 300 points the week before, was refused by  *)
(* the cap, and the clan stands rolled over.                               *)
C26_Witness ==
    /\ last.op = "award"
    /\ last.ret = "clan_cap"
    /\ last.val = FALSE
    /\ last.amount = 501
    /\ day = 7
    /\ clans[last.clan] = [points |-> 0, last_week_points |-> 300,
                           last_week_start |-> 7, max_points |-> 500]

----------------------------------------------------------------------------
(* The directory sync, under SpecDirectory. *)

(* The roles syncclans takes for clans: not passed over, with a member. *)
SyncedRoles(members) ==
    {GuildRoles[i] : i \in {j \in 1..Len(GuildRoles) :
                              /\ ~sync_skips(GuildRoles[j])
                              /\ members[GuildRoles[j]] # {}}}

(* C27: the directory sync creates clans.  A syncclans run over a guild    *)
(* with a role that has a member, is not passed over and is not a clan yet *)
(* is successful, and after a successful run every such role is a clan (a  *)
(* new one with 0 points, this week's start and the default cap) and every *)
(* member who holds one such role has its name as stored assignment.       *)
C27_SyncCreates ==
    [][ \A m \in DirectoryMembers :
          (last'.op = "syncclans" /\ syncclans(m)) =>
             /\ last'.ret = "ok"
             /\ \A role \in SyncedRoles(m) :
                   /\ role \in DOMAIN clans'
                   /\ role \notin DOMAIN clans =>
                         clans'[role] = [points |-> 0,
                                         last_week_start |-> get_week_start(day),
                                         last_week_points |-> 0,
                                         max_points |-> DEFAULT_MAX_POINTS]
                   /\ \A u \in m[role] :
                         (\A o \in SyncedRoles(m) \ {role} : u \notin m[o]) =>
                             /\ u \in DOMAIN users'
                             /\ users'[u].clan_name = role
      ]_vars

----------------------------------------------------------------------------
(* The cap and the week of a removal, under SpecAdmin. *)

(* C28: the cap holds under every operation.  In every reachable state,    *)
(* whatever awards, admin additions and removals, rollovers and            *)
(* setweeklycap calls led to it, every clan has points <= max_points.      *)
C28_CapEverywhere ==
    \A c \in DOMAIN clans : clans[c].points <= clans[c].max_points

(* C29: a removal with a pending rollover completes.  A removepoints call  *)
(* with 0 < amount <= the user's points, for a user whose clan's stored    *)
(* week is past, applies the clan's rollover and commits the removal: the  *)
(* user's points go down by the amount, the clan is rolled over with       *)
(* max(0, 0 - amount) = 0 points, one admin_removal log row is appended,   *)
(* and the call never ends with the removal rolled back.                   *)
C29_RemovalCompletes ==
    [][ LET u == last'.user
            n == last'.amount
        IN  ( /\ last'.op = "removepoints"
              /\ removepoints(u, n, {Wolves})
              /\ Wolves \in DOMAIN clans
              /\ clans[Wolves].last_week_start < get_week_start(day)
              /\ u \in DOMAIN users
              /\ 0 < n /\ n <= users[u].points /\ n <= MAX_ADMIN_AMOUNT ) =>
                /\ last'.ret = "ok"
                /\ users'[u].points = users[u].points - n
                /\ clans'[Wolves] = [points           |-> 0,
                                     last_week_points |-> clans[Wolves].points,
                                     last_week_start  |-> get_week_start(day),
                                     max_points       |-> clans[Wolves].max_points]
                /\ Len(logs') = Len(logs) + 1
                /\ logs'[Len(logs')].amount = 0 - n
                /\ logs'[Len(logs')].source = "admin_removal"
      ]_vars

----------------------------------------------------------------------------
(* SpecMigrated: the bot started on a database of an earlier version that  *)
(* holds one clan, beside a clan created after the start; awards and reads *)
(* of both on a Friday and on the Monday after it.                         *)

MigratedDays == {7}
MigratedAmounts == {200, 300}

MigratedNext ==
    \/ \E d \in MigratedDays : NextDay(d)
    \/ \E c \in ClanNames : createclan(c)
    \/ \E c \in ClanNames : claninfo(c)
    \/ \E u \in UserIds, c \in ClanNames, n \in MigratedAmounts :
          award(u, c, n, "message", TRUE)

SpecMigrated == InitMigrated /\ [][MigratedNext]_vars

(* C30: awards are added only to the current week's total.  In every step  *)
(* in which add_points_to_clan_and_user adds an amount to a clan's points, *)
(* the clan's stored last_week_start is the Monday of the current week.    *)
C30_CurrentWeekOnly ==
    [][ LET c == last'.clan
        IN  ( /\ last'.op = "award"
              /\ award(last'.user, c, last'.amount, "message", TRUE)
              /\ last'.val = TRUE ) =>
                clans'[c].last_week_start = get_week_start(day)
      ]_vars

============================================================================
